---- MODULE Spec2Model ----
(***************************************************************************)
(* Noughts and Crosses (src/noughts_and_crosses.cpp) and the game menu     *)
(* (src/menu.cpp).                                                         *)
(*                                                                         *)
(* Five specifications share the variables below:                          *)
(*   Spec      one game session: the mouse_pressed and update callbacks of *)
(*             play_noughts_and_crosses, run one at a time to completion   *)
(*             in any order while the context's loop is running;           *)
(*   SpecRT    the pure coordinate functions cell_center and               *)
(*             cell_hovered_by on every cell of every board size up to     *)
(*             MaxN;                                                       *)
(*   SpecMenu  the loop of show_menu;                                      *)
(*   SpecNormalPlay  the session in which every press is followed by a     *)
(*             frame before the next press is handled;                     *)
(*   SpecDetector    the pure functions check_for_winner_on_line and       *)
(*             check_for_winner on every board of board_size^2 cells.      *)
(***************************************************************************)
EXTENDS Integers, Sequences, FiniteSets

VARIABLES
    board,          \* Board::_cells, indexed by index.x + index.y * size
    current_player, \* play_noughts_and_crosses: current_player
    running,        \* the context's loop: TRUE from ctx.start() to ctx.stop()
    stdout,         \* the lines written to std::cout by the session
    event,          \* the callback that ran last, with the position it got
    frame,          \* the draw calls, prints and stop of the last update callback
    aborted,        \* TRUE once an assertion of Board::operator[] has failed
    writes,         \* history: per cell, the number of assignments at line 160
    rt,             \* SpecRT: the size, the index and the values computed
    menu,           \* SpecMenu: quit, the output and the games played
    detector        \* SpecDetector: the line tried and the values returned

vars == <<board, current_player, running, stdout, event, frame, aborted,
          writes, rt, menu, detector>>

(***************************************************************************)
(* Bounds                                                                  *)
(***************************************************************************)
\* SpecRT checks the coordinate functions for board sizes 2..MaxN
MaxN == 5

\* SpecMenu reads at most MaxCommands commands
MaxCommands == 3

(***************************************************************************)
(* float: IEEE-754 binary32, round to nearest, ties to even.               *)
(* A float is held as an integer count of 2^-FracBits; every value the     *)
(* model computes (board sizes up to 8, positions within [-2, 2]) is such  *)
(* a multiple and its products stay below 2^31.                            *)
(***************************************************************************)
MantissaBits == 24

\* three more binary places than a float in [1, 2) has below the point
FracBits == MantissaBits + 3

RECURSIVE Pow2(_)
Pow2(n) == IF n = 0 THEN 1 ELSE 2 * Pow2(n - 1)

One == Pow2(FracBits)

RECURSIVE BitLen(_)
BitLen(n) == IF n = 0 THEN 0 ELSE 1 + BitLen(n \div 2)

Abs(n) == IF n < 0 THEN -n ELSE n

Sign(n) == IF n < 0 THEN -1 ELSE 1

\* p / q (p >= 0, q > 0) rounded to the nearest integer, ties to even
RoundHalfEven(p, q) ==
    LET f == p \div q
        r == p % q
    IN  IF 2 * r < q THEN f
        ELSE IF 2 * r > q THEN f + 1
        ELSE IF f % 2 = 0 THEN f ELSE f + 1

\* the float nearest to p / q counts of 2^-FracBits (q > 0)
RoundFloat(p, q) ==
    LET m   == Abs(p) \div q
        len == BitLen(m)
        ulp == IF len > MantissaBits THEN Pow2(len - MantissaBits) ELSE 1
    IN  Sign(p) * RoundHalfEven(Abs(p), q * ulp) * ulp

\* static_cast<float>(int)
ToFloat(n) == RoundFloat(n * One, 1)

FAdd(a, b) == RoundFloat(a + b, 1)

FSub(a, b) == RoundFloat(a - b, 1)

\* a * b and a / b, for b the float of an integer (a board size, or a
\* difference of range ends), which is what every call site passes
FMul(a, b) == RoundFloat(a * (b \div One), 1)

FDiv(a, b) == RoundFloat(a, b \div One)

\* static_cast<int>(std::floor(a))
FloorToInt(a) == a \div One

(***************************************************************************)
(* Coordinate mapping                                                      *)
(***************************************************************************)
Vec2(x, y) == [x |-> x, y |-> y]

CellIndex(x, y) == [x |-> x, y |-> y]

\* std::optional<CellIndex>
nullopt_index == [has_value |-> FALSE]

make_optional(index) == [has_value |-> TRUE, value |-> index]

\* p6::map on one component: the linear map of [from_min, from_max] onto
\* [to_min, to_max], computed in float as
\* (x - from_min) / (from_max - from_min) * (to_max - to_min) + to_min
p6_map(x, from_min, from_max, to_min, to_max) ==
    FAdd(FMul(FDiv(FSub(x, from_min), FSub(from_max, from_min)),
              FSub(to_max, to_min)),
         to_min)

cell_radius(size) == FDiv(ToFloat(1), ToFloat(size))

cell_bottom_left_corner(index, size) ==
    Vec2(p6_map(ToFloat(index.x), ToFloat(0), ToFloat(size), ToFloat(-1), ToFloat(1)),
         p6_map(ToFloat(index.y), ToFloat(0), ToFloat(size), ToFloat(-1), ToFloat(1)))

\* mutant of cell_center: the side of the cell is added, not its radius
cell_center_plus_side(index, size) ==
    LET corner == cell_bottom_left_corner(index, size)
        side   == FAdd(cell_radius(size), cell_radius(size))
    IN  Vec2(FAdd(corner.x, side), FAdd(corner.y, side))

cell_center(index, size) ==
    LET corner == cell_bottom_left_corner(index, size)
    IN  Vec2(FAdd(corner.x, cell_radius(size)), FAdd(corner.y, cell_radius(size)))

\* mutant of cell_hovered_by: the index is returned without the range test
cell_hovered_by_unchecked(position, size) ==
    LET pos == Vec2(p6_map(position.x, ToFloat(-1), ToFloat(1), ToFloat(0), ToFloat(size)),
                    p6_map(position.y, ToFloat(-1), ToFloat(1), ToFloat(0), ToFloat(size)))
    IN  make_optional(CellIndex(FloorToInt(pos.x), FloorToInt(pos.y)))

cell_hovered_by(position, size) ==
    LET pos   == Vec2(p6_map(position.x, ToFloat(-1), ToFloat(1), ToFloat(0), ToFloat(size)),
                      p6_map(position.y, ToFloat(-1), ToFloat(1), ToFloat(0), ToFloat(size)))
        index == CellIndex(FloorToInt(pos.x), FloorToInt(pos.y))
    IN  IF /\ index.x >= 0 /\ index.x < size
           /\ index.y >= 0 /\ index.y < size
        THEN make_optional(index)
        ELSE nullopt_index

(***************************************************************************)
(* Board and players. Board, try_to_play and the win detector are          *)
(* templates over the board size; play_noughts_and_crosses instantiates    *)
(* them with board_size.                                                   *)
(***************************************************************************)
board_size == 3

Noughts == "Noughts"

Crosses == "Crosses"

Player == {Noughts, Crosses}

\* std::optional<Player> without a value
nullopt == "nullopt"

\* Board<board_size>{}: board_size * board_size cells, all without a value
EmptyBoard == [k \in 0 .. board_size * board_size - 1 |-> nullopt]

\* the assertion of Board::operator[]
InRange(index) ==
    /\ index.x >= 0 /\ index.x < board_size
    /\ index.y >= 0 /\ index.y < board_size

\* the place of a cell in Board::_cells
CellOffset(index) == index.x + index.y * board_size

\* Board::operator[]. Where the assertion fails the program has aborted and
\* the value is not used.
BoardAt(b, index) == IF InRange(index) THEN b[CellOffset(index)] ELSE nullopt

\* the indices of the loops "for x ... for y ..." in the order they run
LoopIndices ==
    [k \in 1 .. board_size * board_size |->
        CellIndex((k - 1) \div board_size, (k - 1) % board_size)]

AllIndices == {LoopIndices[k] : k \in 1 .. board_size * board_size}

(***************************************************************************)
(* Pointer positions of the events: the centre of every cell, the click    *)
(* outside the board at (1.5, 0.0), the corner (+1, +1) and a point below  *)
(* and left of the board.                                                  *)
(***************************************************************************)
PointerPositions ==
    {cell_center(index, board_size) : index \in AllIndices}
    \cup {Vec2((3 * One) \div 2, 0),
          Vec2(One, One),
          Vec2(-((3 * One) \div 2), -((3 * One) \div 2))}

\* cell_hovered_by(position, board_size), tabulated over the pointer positions
HoveredCell == [position \in PointerPositions |-> cell_hovered_by(position, board_size)]

(***************************************************************************)
(* Turn controller                                                         *)
(***************************************************************************)
\* mutant of change_player: both branches assign Noughts
change_player_to_noughts(player) == Noughts

change_player(player) == IF player = Noughts THEN Crosses ELSE Noughts

\* mutant of try_to_play: the test of cell_is_empty is left out
try_to_play_overwrites(cell_index, b, player) ==
    IF cell_index.has_value
    THEN [board  |-> [b EXCEPT ![CellOffset(cell_index.value)] = player],
          player |-> change_player(player),
          wrote  |-> TRUE]
    ELSE [board |-> b, player |-> player, wrote |-> FALSE]

\* mutant of try_to_play: change_player is called after the test of
\* cell_is_empty, not inside it
try_to_play_flips_when_occupied(cell_index, b, player) ==
    IF cell_index.has_value
    THEN IF BoardAt(b, cell_index.value) = nullopt
         THEN [board  |-> [b EXCEPT ![CellOffset(cell_index.value)] = player],
               player |-> change_player(player),
               wrote  |-> TRUE]
         ELSE [board |-> b, player |-> change_player(player), wrote |-> FALSE]
    ELSE [board |-> b, player |-> player, wrote |-> FALSE]

\* mutant of try_to_play: the cell is assigned and change_player is not
\* called
try_to_play_keeps_player(cell_index, b, player) ==
    IF cell_index.has_value
    THEN IF BoardAt(b, cell_index.value) = nullopt
         THEN [board  |-> [b EXCEPT ![CellOffset(cell_index.value)] = player],
               player |-> player,
               wrote  |-> TRUE]
         ELSE [board |-> b, player |-> player, wrote |-> FALSE]
    ELSE [board |-> b, player |-> player, wrote |-> FALSE]

\* try_to_play: the board and the player to move after the call, and
\* whether the assignment of line 160 ran
try_to_play(cell_index, b, player) ==
    IF cell_index.has_value
    THEN LET cell_is_empty == BoardAt(b, cell_index.value) = nullopt
         IN  IF cell_is_empty
             THEN [board  |-> [b EXCEPT ![CellOffset(cell_index.value)] = player],
                   player |-> change_player(player),
                   wrote  |-> TRUE]
             ELSE [board |-> b, player |-> player, wrote |-> FALSE]
    ELSE [board |-> b, player |-> player, wrote |-> FALSE]

\* whether every index try_to_play passes to Board::operator[] satisfies
\* its assertion
try_to_play_in_range(cell_index) ==
    cell_index.has_value => InRange(cell_index.value)

(***************************************************************************)
(* Win detector                                                            *)
(***************************************************************************)
\* mutant of board_is_full: the test of the lambda is negated
board_is_full_negated(b) == \A k \in DOMAIN b : b[k] = nullopt

board_is_full(b) == \A k \in DOMAIN b : b[k] # nullopt

\* mutant of are_all_equal: the loop stops one comparison early
RECURSIVE are_all_equal_but_last(_, _, _)
are_all_equal_but_last(b, index_generator, position) ==
    IF position < board_size - 2
    THEN IF BoardAt(b, index_generator[position])
              # BoardAt(b, index_generator[position + 1])
         THEN FALSE
         ELSE are_all_equal_but_last(b, index_generator, position + 1)
    ELSE TRUE

\* the loop of check_for_winner_on_line's are_all_equal, from `position` on
RECURSIVE are_all_equal(_, _, _)
are_all_equal(b, index_generator, position) ==
    IF position < board_size - 1
    THEN IF BoardAt(b, index_generator[position])
              # BoardAt(b, index_generator[position + 1])
         THEN FALSE
         ELSE are_all_equal(b, index_generator, position + 1)
    ELSE TRUE

check_for_winner_on_line(b, index_generator) ==
    IF /\ are_all_equal(b, index_generator, 0)
       /\ BoardAt(b, index_generator[0]) # nullopt
    THEN BoardAt(b, index_generator[0])
    ELSE nullopt

\* the index generators of check_for_winner, as functions of the position
Column(x) == [position \in 0 .. board_size - 1 |-> CellIndex(x, position)]

Row(y) == [position \in 0 .. board_size - 1 |-> CellIndex(position, y)]

Diagonal == [position \in 0 .. board_size - 1 |-> CellIndex(position, position)]

AntiDiagonal ==
    [position \in 0 .. board_size - 1 |-> CellIndex(position, board_size - position - 1)]

\* mutant of Lines: the loop over the columns runs from the last to the first
Lines_columns_descending ==
    [k \in 1 .. 2 * board_size + 2 |->
        IF k <= board_size THEN Column(board_size - k)
        ELSE IF k <= 2 * board_size THEN Row(k - board_size - 1)
        ELSE IF k = 2 * board_size + 1 THEN Diagonal
        ELSE AntiDiagonal]

\* the lines in the order check_for_winner tries them
Lines ==
    [k \in 1 .. 2 * board_size + 2 |->
        IF k <= board_size THEN Column(k - 1)
        ELSE IF k <= 2 * board_size THEN Row(k - board_size - 1)
        ELSE IF k = 2 * board_size + 1 THEN Diagonal
        ELSE AntiDiagonal]

\* check_for_winner from line k on: each step runs only while winner has no
\* value
RECURSIVE check_for_winner_from(_, _)
check_for_winner_from(b, k) ==
    IF k > Len(Lines) THEN nullopt
    ELSE LET winner == check_for_winner_on_line(b, Lines[k])
         IN  IF winner # nullopt THEN winner
             ELSE check_for_winner_from(b, k + 1)

check_for_winner(b) == check_for_winner_from(b, 1)

\* whether every index check_for_winner_on_line passes to Board::operator[]
\* satisfies its assertion: the two of each comparison made, and the first
\* of the line when all are equal
RECURSIVE are_all_equal_in_range(_, _, _)
are_all_equal_in_range(b, index_generator, position) ==
    IF position < board_size - 1
    THEN /\ InRange(index_generator[position])
         /\ InRange(index_generator[position + 1])
         /\ \/ BoardAt(b, index_generator[position])
                 # BoardAt(b, index_generator[position + 1])
            \/ are_all_equal_in_range(b, index_generator, position + 1)
    ELSE TRUE

check_for_winner_on_line_in_range(b, index_generator) ==
    /\ are_all_equal_in_range(b, index_generator, 0)
    /\ are_all_equal(b, index_generator, 0) => InRange(index_generator[0])

\* the same for check_for_winner, over the lines it tries
RECURSIVE check_for_winner_in_range_from(_, _)
check_for_winner_in_range_from(b, k) ==
    IF k > Len(Lines) THEN TRUE
    ELSE /\ check_for_winner_on_line_in_range(b, Lines[k])
         /\ \/ check_for_winner_on_line(b, Lines[k]) # nullopt
            \/ check_for_winner_in_range_from(b, k + 1)

check_for_winner_in_range(b) == check_for_winner_in_range_from(b, 1)

NoughtsHaveWon == "Noughts have won!"

CrossesHaveWon == "Crosses have won!"

ThisIsADraw == "This is a draw!"

\* mutant of game_is_finished: the full board is tested before the winner
game_is_finished_draw_first(b) ==
    IF board_is_full(b)
    THEN [finished |-> TRUE, printed |-> <<ThisIsADraw>>]
    ELSE IF check_for_winner(b) = Noughts
         THEN [finished |-> TRUE, printed |-> <<NoughtsHaveWon>>]
         ELSE IF check_for_winner(b) = Crosses
              THEN [finished |-> TRUE, printed |-> <<CrossesHaveWon>>]
              ELSE [finished |-> FALSE, printed |-> <<>>]

\* mutant of game_is_finished: the draw is printed and false is returned
game_is_finished_draw_goes_on(b) ==
    IF check_for_winner(b) = Noughts
    THEN [finished |-> TRUE, printed |-> <<NoughtsHaveWon>>]
    ELSE IF check_for_winner(b) = Crosses
         THEN [finished |-> TRUE, printed |-> <<CrossesHaveWon>>]
         ELSE IF board_is_full(b)
              THEN [finished |-> FALSE, printed |-> <<ThisIsADraw>>]
              ELSE [finished |-> FALSE, printed |-> <<>>]

\* mutant of game_is_finished: the winner is printed and false is returned
game_is_finished_winner_goes_on(b) ==
    IF check_for_winner(b) = Noughts
    THEN [finished |-> FALSE, printed |-> <<NoughtsHaveWon>>]
    ELSE IF check_for_winner(b) = Crosses
         THEN [finished |-> FALSE, printed |-> <<CrossesHaveWon>>]
         ELSE IF board_is_full(b)
              THEN [finished |-> TRUE, printed |-> <<ThisIsADraw>>]
              ELSE [finished |-> FALSE, printed |-> <<>>]

\* game_is_finished: the value returned and the lines written to std::cout
game_is_finished(b) ==
    LET winner == check_for_winner(b)
    IN  IF winner # nullopt
        THEN IF winner = Noughts
             THEN [finished |-> TRUE, printed |-> <<NoughtsHaveWon>>]
             ELSE [finished |-> TRUE, printed |-> <<CrossesHaveWon>>]
        ELSE IF board_is_full(b)
             THEN [finished |-> TRUE, printed |-> <<ThisIsADraw>>]
             ELSE [finished |-> FALSE, printed |-> <<>>]

(***************************************************************************)
(* Drawing: each operator is the sequence of draw calls the function makes *)
(***************************************************************************)
draw_cell(index) == [op |-> "draw_cell", index |-> index]

\* draw_player, called from the function `by`: a nought or a cross at index
draw_player(player, index, by) ==
    [op     |-> IF player = Noughts THEN "draw_nought" ELSE "draw_cross",
     index  |-> index,
     by     |-> by]

draw_board == [k \in 1 .. board_size * board_size |-> draw_cell(LoopIndices[k])]

RECURSIVE draw_noughts_and_crosses_from(_, _)
draw_noughts_and_crosses_from(b, k) ==
    IF k > Len(LoopIndices) THEN <<>>
    ELSE LET cell == BoardAt(b, LoopIndices[k])
         IN  (IF cell # nullopt
              THEN <<draw_player(cell, LoopIndices[k], "draw_noughts_and_crosses")>>
              ELSE <<>>)
             \o draw_noughts_and_crosses_from(b, k + 1)

draw_noughts_and_crosses(b) == draw_noughts_and_crosses_from(b, 1)

\* whether every index draw_noughts_and_crosses passes to Board::operator[]
\* satisfies its assertion
draw_noughts_and_crosses_in_range == \A index \in AllIndices : InRange(index)

\* mutant of try_draw_player_on_hovered_cell: the test that the cell has no
\* value is left out
try_draw_player_on_hovered_cell_on_occupied(player, b, mouse) ==
    IF HoveredCell[mouse].has_value
    THEN <<draw_player(player, HoveredCell[mouse].value,
                       "try_draw_player_on_hovered_cell")>>
    ELSE <<>>

\* try_draw_player_on_hovered_cell with ctx.mouse() = mouse
try_draw_player_on_hovered_cell(player, b, mouse) ==
    LET hovered_cell == HoveredCell[mouse]
    IN  IF hovered_cell.has_value /\ BoardAt(b, hovered_cell.value) = nullopt
        THEN <<draw_player(player, hovered_cell.value,
                           "try_draw_player_on_hovered_cell")>>
        ELSE <<>>

\* whether the index try_draw_player_on_hovered_cell passes to
\* Board::operator[] satisfies its assertion
try_draw_player_on_hovered_cell_in_range(mouse) ==
    HoveredCell[mouse].has_value => InRange(HoveredCell[mouse].value)

(***************************************************************************)
(* Session: play_noughts_and_crosses                                       *)
(***************************************************************************)
IdleRT == [pc |-> "idle"]

IdleMenu == [pc |-> "idle"]

IdleDetector == [pc |-> "idle"]

NoWrites == [k \in 0 .. board_size * board_size - 1 |-> 0]

\* lines 256-260 and ctx.start()
Init ==
    /\ board = EmptyBoard
    /\ current_player = Crosses
    /\ running = TRUE
    /\ stdout = <<>>
    /\ event = [kind |-> "start"]
    /\ frame = <<>>
    /\ aborted = FALSE
    /\ writes = NoWrites
    /\ rt = IdleRT
    /\ menu = IdleMenu
    /\ detector = IdleDetector

\* a failed assertion of Board::operator[] aborts the program
Abort(kind, position) ==
    /\ aborted' = TRUE
    /\ running' = FALSE
    /\ event' = [kind |-> kind, position |-> position]
    /\ frame' = <<>>
    /\ UNCHANGED <<board, current_player, stdout, writes>>

\* ctx.mouse_pressed, with the event at `position`
MousePressed(position) ==
    /\ running
    /\ LET cell_index == HoveredCell[position]
           played     == try_to_play(cell_index, board, current_player)
       IN  IF ~try_to_play_in_range(cell_index)
           THEN Abort("mouse_pressed", position)
           ELSE /\ board' = played.board
                /\ current_player' = played.player
                /\ writes' = IF played.wrote
                             THEN [writes EXCEPT ![CellOffset(cell_index.value)] = @ + 1]
                             ELSE writes
                /\ event' = [kind |-> "mouse_pressed", position |-> position]
                /\ frame' = <<>>
                /\ UNCHANGED <<running, stdout, aborted>>
    /\ UNCHANGED <<rt, menu, detector>>

\* the part of the update callback that does not read the pointer: whether
\* the indices passed to Board::operator[] satisfy its assertion, the draw
\* calls of draw_board and draw_noughts_and_crosses, and game_is_finished
UpdateOfBoard(b) ==
    [in_range |-> /\ draw_noughts_and_crosses_in_range
                  /\ check_for_winner_in_range(b),
     marks    |-> draw_board \o draw_noughts_and_crosses(b),
     finished |-> game_is_finished(b)]

\* what the update callback does once game_is_finished has returned
Ending(finished) ==
    [k \in 1 .. Len(finished.printed) |-> [op |-> "print", text |-> finished.printed[k]]]
    \o (IF finished.finished THEN <<[op |-> "stop"]>> ELSE <<>>)

\* mutant of Update: try_draw_player_on_hovered_cell assigns the hovered
\* cell on the board of the session instead of only drawing on it
Update_plays_hovered_cell ==
    /\ running
    /\ \E u \in {UpdateOfBoard(board)} :
         \E mouse \in PointerPositions :
           IF ~(u.in_range /\ try_draw_player_on_hovered_cell_in_range(mouse))
           THEN Abort("update", mouse)
           ELSE /\ frame' = u.marks
                            \o try_draw_player_on_hovered_cell(current_player, board, mouse)
                            \o Ending(u.finished)
                /\ stdout' = stdout \o u.finished.printed
                /\ running' = ~u.finished.finished
                /\ event' = [kind |-> "update", position |-> mouse]
                /\ board' = try_to_play(HoveredCell[mouse], board, current_player).board
                /\ UNCHANGED <<current_player, writes, aborted>>
    /\ UNCHANGED <<rt, menu, detector>>

\* mutant of Update: game_is_finished is called, and the loop stopped, before
\* anything is drawn
Update_finishes_first ==
    /\ running
    /\ \E u \in {UpdateOfBoard(board)} :
         \E mouse \in PointerPositions :
           IF ~(u.in_range /\ try_draw_player_on_hovered_cell_in_range(mouse))
           THEN Abort("update", mouse)
           ELSE /\ frame' = Ending(u.finished)
                            \o u.marks
                            \o try_draw_player_on_hovered_cell(current_player, board, mouse)
                /\ stdout' = stdout \o u.finished.printed
                /\ running' = ~u.finished.finished
                /\ event' = [kind |-> "update", position |-> mouse]
                /\ UNCHANGED <<board, current_player, writes, aborted>>
    /\ UNCHANGED <<rt, menu, detector>>

\* ctx.update, with the pointer (ctx.mouse()) at some position
Update ==
    /\ running
    /\ \E u \in {UpdateOfBoard(board)} :
         \E mouse \in PointerPositions :
           IF ~(u.in_range /\ try_draw_player_on_hovered_cell_in_range(mouse))
           THEN Abort("update", mouse)
           ELSE /\ frame' = u.marks
                            \o try_draw_player_on_hovered_cell(current_player, board, mouse)
                            \o Ending(u.finished)
                /\ stdout' = stdout \o u.finished.printed
                /\ running' = ~u.finished.finished
                /\ event' = [kind |-> "update", position |-> mouse]
                /\ UNCHANGED <<board, current_player, writes, aborted>>
    /\ UNCHANGED <<rt, menu, detector>>

Next ==
    \/ \E position \in PointerPositions : MousePressed(position)
    \/ Update

Spec == Init /\ [][Next]_vars

(***************************************************************************)
(* SpecNormalPlay: the session in which the game stops at the first        *)
(* terminal board. The update callback runs after every press before the   *)
(* next press is handled, so the frame that follows a move sees its board  *)
(* and stops the loop when that board is terminal.                         *)
(***************************************************************************)
\* ctx.mouse_pressed, handled when the callback before it was not a press
PressAfterFrame(position) ==
    /\ event.kind # "mouse_pressed"
    /\ MousePressed(position)

NextNormalPlay ==
    \/ \E position \in PointerPositions : PressAfterFrame(position)
    \/ Update

SpecNormalPlay == Init /\ [][NextNormalPlay]_vars

(***************************************************************************)
(* SpecRT: cell_center, then cell_hovered_by, on every cell of every board *)
(* size from 2 to MaxN                                                     *)
(***************************************************************************)
\* the session before play_noughts_and_crosses is called
NoSession ==
    /\ board = EmptyBoard
    /\ current_player = Crosses
    /\ running = FALSE
    /\ stdout = <<>>
    /\ event = [kind |-> "idle"]
    /\ frame = <<>>
    /\ aborted = FALSE
    /\ writes = NoWrites

InitRT ==
    /\ NoSession
    /\ menu = IdleMenu
    /\ detector = IdleDetector
    /\ \E size \in 2 .. MaxN :
         \E x \in 0 .. size - 1 :
           \E y \in 0 .. size - 1 :
             rt = [pc      |-> "index",
                   size    |-> size,
                   index   |-> CellIndex(x, y),
                   center  |-> Vec2(0, 0),
                   hovered |-> nullopt_index]

CellCenter ==
    /\ rt.pc = "index"
    /\ rt' = [rt EXCEPT !.pc = "center",
                        !.center = cell_center(rt.index, rt.size)]
    /\ UNCHANGED <<board, current_player, running, stdout, event, frame,
                   aborted, writes, menu, detector>>

CellHoveredBy ==
    /\ rt.pc = "center"
    /\ rt' = [rt EXCEPT !.pc = "hovered",
                        !.hovered = cell_hovered_by(rt.center, rt.size)]
    /\ UNCHANGED <<board, current_player, running, stdout, event, frame,
                   aborted, writes, menu, detector>>

NextRT == CellCenter \/ CellHoveredBy

SpecRT == InitRT /\ [][NextRT]_vars

(***************************************************************************)
(* SpecMenu: show_menu. A step runs from one return of                     *)
(* get_input_from_user to the next call of it, or to the end of the loop.  *)
(***************************************************************************)
\* the keys of `games` and the names of their games
games ==
    [command \in {"1", "2", "3", "4"} |->
        CASE command = "1" -> "Guess the Number"
          [] command = "2" -> "Hangman"
          [] command = "3" -> "Noughts and Crosses"
          [] command = "4" -> "Connect 4"]

\* the characters read: quit, the four games, and two that are no command
Commands == {"q", "1", "2", "3", "4", "5", "Q"}

show_the_list_of_commands == [op |-> "show_the_list_of_commands"]

UnknownCommand == "Sorry I don't know that command!"

\* mutant of Dispatch: a character that is no key of `games` ends the loop
Dispatch_unknown_quits(command) ==
    IF command = "q" \/ command \notin DOMAIN games
    THEN [quit |-> TRUE, did |-> <<>>]
    ELSE [quit |-> FALSE, did |-> <<[op |-> "play", name |-> games[command]]>>]

\* the body of the loop after get_input_from_user has returned `command`:
\* the new value of quit, and what is called or printed
Dispatch(command) ==
    IF command = "q"
    THEN [quit |-> TRUE, did |-> <<>>]
    ELSE IF command \in DOMAIN games
         THEN [quit |-> FALSE, did |-> <<[op |-> "play", name |-> games[command]]>>]
         ELSE [quit |-> FALSE, did |-> <<[op |-> "print", text |-> UnknownCommand]>>]

\* show_menu up to its first call of get_input_from_user
InitMenu ==
    /\ NoSession
    /\ rt = IdleRT
    /\ detector = IdleDetector
    /\ menu = [pc       |-> "get_input_from_user",
               quit     |-> FALSE,
               commands |-> <<>>,
               out      |-> <<show_the_list_of_commands>>]

\* get_input_from_user returns `command`; the loop runs to its next call, or
\* ends
MenuCommand(command) ==
    /\ menu.pc = "get_input_from_user"
    /\ Len(menu.commands) < MaxCommands
    /\ LET dispatched == Dispatch(command)
       IN  menu' = [pc       |-> IF dispatched.quit THEN "returned"
                                 ELSE "get_input_from_user",
                    quit     |-> dispatched.quit,
                    commands |-> Append(menu.commands, command),
                    out      |-> menu.out \o dispatched.did
                                 \o (IF dispatched.quit THEN <<>>
                                     ELSE <<show_the_list_of_commands>>)]
    /\ UNCHANGED <<board, current_player, running, stdout, event, frame,
                   aborted, writes, rt, detector>>

NextMenu == \E command \in Commands : MenuCommand(command)

SpecMenu == InitMenu /\ [][NextMenu]_vars

(***************************************************************************)
(* SpecDetector: check_for_winner_on_line on every line, and               *)
(* check_for_winner, on every board of board_size^2 cells                  *)
(***************************************************************************)
\* every Board<board_size>: each cell holds a player or no value
Boards == [0 .. board_size * board_size - 1 -> Player \cup {nullopt}]

InitDetector ==
    /\ board \in Boards
    /\ current_player = Crosses
    /\ running = FALSE
    /\ stdout = <<>>
    /\ event = [kind |-> "idle"]
    /\ frame = <<>>
    /\ aborted = FALSE
    /\ writes = NoWrites
    /\ rt = IdleRT
    /\ menu = IdleMenu
    /\ detector = [pc |-> "board"]

\* check_for_winner_on_line(board, Lines[line])
CheckForWinnerOnLine(line) ==
    /\ detector.pc = "board"
    /\ detector' = [pc     |-> "check_for_winner_on_line",
                    line   |-> line,
                    winner |-> check_for_winner_on_line(board, Lines[line])]
    /\ UNCHANGED <<board, current_player, running, stdout, event, frame,
                   aborted, writes, rt, menu>>

\* check_for_winner(board)
CheckForWinner ==
    /\ detector.pc = "board"
    /\ detector' = [pc     |-> "check_for_winner",
                    winner |-> check_for_winner(board)]
    /\ UNCHANGED <<board, current_player, running, stdout, event, frame,
                   aborted, writes, rt, menu>>

NextDetector ==
    \/ \E line \in 1 .. Len(Lines) : CheckForWinnerOnLine(line)
    \/ CheckForWinner

SpecDetector == InitDetector /\ [][NextDetector]_vars

(***************************************************************************)
(* Properties                                                              *)
(***************************************************************************)
OtherPlayer(player) == CHOOSE other \in Player : other # player

\* the rows, the columns and the two diagonals, each as the set of its cells
WinningLines ==
    {{CellIndex(x, y) : y \in 0 .. board_size - 1} : x \in 0 .. board_size - 1}
    \cup {{CellIndex(x, y) : x \in 0 .. board_size - 1} : y \in 0 .. board_size - 1}
    \cup {{CellIndex(k, k) : k \in 0 .. board_size - 1}}
    \cup {{CellIndex(k, board_size - 1 - k) : k \in 0 .. board_size - 1}}

CellOf(b, index) == b[index.x + index.y * board_size]

HasLine(b, player) ==
    \E line \in WinningLines : \A index \in line : CellOf(b, index) = player

SomeLineIsWon(b) == \E player \in Player : HasLine(b, player)

EveryCellIsOccupied(b) == \A index \in AllIndices : CellOf(b, index) # nullopt

Occupied(b) == {index \in AllIndices : CellOf(b, index) # nullopt}

\* the legal moves committed so far
RECURSIVE SumTo(_, _)
SumTo(f, k) == IF k < 0 THEN 0 ELSE f[k] + SumTo(f, k - 1)

Moves == SumTo(writes, board_size * board_size - 1)

\* the lines printed by the last update callback
Printed == SelectSeq(frame, LAMBDA call : call.op = "print")

OutcomeLines == {NoughtsHaveWon, CrossesHaveWon, ThisIsADraw}

\* the press of the step was an illegal attempt: its index is absent, or its
\* cell was occupied before the step
PressedIllegally ==
    /\ event'.kind = "mouse_pressed"
    /\ \/ ~HoveredCell[event'.position].has_value
       \/ CellOf(board, HoveredCell[event'.position].value) # nullopt

PressedLegally ==
    /\ event'.kind = "mouse_pressed"
    /\ HoveredCell[event'.position].has_value
    /\ CellOf(board, HoveredCell[event'.position].value) = nullopt

\* C1: a cell that has become occupied never changes again, and every
\* occupied cell was assigned by exactly one call of try_to_play (an empty
\* cell by none)
C1_OccupiedCellsNeverChange ==
    /\ [](\A k \in DOMAIN board : writes[k] = IF board[k] = nullopt THEN 0 ELSE 1)
    /\ [][\A k \in DOMAIN board : board[k] # nullopt => board'[k] = board[k]]_vars

\* a press on a cell that its owner's opponent did not just take: the cell
\* was occupied before the press, by the player who is still to move
C1_Witness ==
    /\ event.kind = "mouse_pressed"
    /\ HoveredCell[event.position].has_value
    /\ CellOf(board, HoveredCell[event.position].value) = current_player
    /\ Cardinality(Occupied(board)) >= 3

\* C2: a press that commits a legal move hands the turn to the other
\* player; an illegal press leaves current_player as it was
C2_TurnAlternation ==
    [][/\ PressedLegally => current_player' = OtherPlayer(current_player)
       /\ PressedIllegally => current_player' = current_player]_vars

\* after one legal move (Noughts to move), a press outside the board
C2_Witness ==
    /\ event.kind = "mouse_pressed"
    /\ ~HoveredCell[event.position].has_value
    /\ Cardinality(Occupied(board)) = 1
    /\ current_player = Noughts

\* C3: on every board the update callback can observe, check_for_winner
\* returns p if and only if some row, column or diagonal is filled with p
C3_WinnerIffLine ==
    running => \A player \in Player :
                 check_for_winner(board) = player <=> HasLine(board, player)

\* C4: when some line is won, the update callback prints a winner's line
\* and never the draw line; the draw line is printed only when no line is
\* won and every cell is occupied
C4_WinnerBeforeDraw ==
    (event.kind = "update" /\ ~aborted) =>
        /\ SomeLineIsWon(board) =>
              /\ Len(Printed) = 1
              /\ Printed[1].text \in {NoughtsHaveWon, CrossesHaveWon}
              /\ HasLine(board, IF Printed[1].text = NoughtsHaveWon
                                THEN Noughts ELSE Crosses)
        /\ \A k \in 1 .. Len(Printed) :
              Printed[k].text = ThisIsADraw =>
                  ~SomeLineIsWon(board) /\ EveryCellIsOccupied(board)

\* a full board with a won line, and its winner announced
C4_Witness ==
    /\ event.kind = "update"
    /\ EveryCellIsOccupied(board)
    /\ SomeLineIsWon(board)
    /\ Len(Printed) = 1
    /\ Printed[1].text = CrossesHaveWon

\* C5: no session commits more than board_size^2 legal moves; once
\* board_size^2 moves are committed and the loop still runs, the update
\* callback can run, and when it does it prints an outcome and stops the
\* loop
C5_EndsWithinNSquaredMoves ==
    /\ [](Moves <= board_size * board_size)
    /\ []((Moves = board_size * board_size /\ running) => ENABLED Update)
    /\ [][(Moves = board_size * board_size /\ Update) =>
            /\ ~running'
            /\ Len(stdout') = Len(stdout) + 1
            /\ stdout'[Len(stdout')] \in OutcomeLines]_vars

\* nine moves were committed, no line was won, and the loop has stopped
C5_Witness ==
    /\ Moves = board_size * board_size
    /\ ~running
    /\ stdout = <<ThisIsADraw>>

\* C6: an illegal press changes no cell and not the player to move, prints
\* nothing, fails no assertion and leaves the loop running
C6_IllegalAttemptIgnored ==
    [][PressedIllegally =>
          /\ board' = board
          /\ current_player' = current_player
          /\ stdout' = stdout
          /\ aborted' = aborted
          /\ running' = running]_vars

\* from the empty board, the click at (1.5, 0.0)
C6_Witness ==
    /\ event = [kind |-> "mouse_pressed", position |-> Vec2((3 * One) \div 2, 0)]
    /\ board = EmptyBoard
    /\ current_player = Crosses
    /\ running

\* C7: an update callback stops the loop if and only if some line is won or
\* every cell is occupied, and prints one outcome line when it stops the
\* loop and none when it does not; so nothing is printed while the loop
\* runs, and one line in all once it has stopped
C7_OneOutcomeWhenStopped ==
    /\ (event.kind = "update" /\ ~aborted) =>
          /\ ~running <=> (SomeLineIsWon(board) \/ EveryCellIsOccupied(board))
          /\ Len(Printed) = IF running THEN 0 ELSE 1
          /\ ~running <=> (frame # <<>> /\ frame[Len(frame)].op = "stop")
    /\ Len(stdout) = IF running THEN 0 ELSE 1
    /\ \A k \in 1 .. Len(stdout) : stdout[k] \in OutcomeLines

\* the frame that found a line of noughts has printed it and stopped
C7_Witness ==
    /\ event.kind = "update"
    /\ ~running
    /\ stdout = <<NoughtsHaveWon>>
    /\ Len(Printed) = 1
    /\ frame[Len(frame)].op = "stop"

\* C8: no index passed to Board::operator[] fails its assertion, wherever
\* the pointer is
C8_AssertionNeverFails == ~aborted

\* after two moves, a frame that drew both, drew the preview on the cell
\* under the pointer and went through every line of the win detector
C8_Witness ==
    /\ event.kind = "update"
    /\ Cardinality(Occupied(board)) = 2
    /\ \E k \in 1 .. Len(frame) :
          /\ frame[k].op \in {"draw_nought", "draw_cross"}
          /\ frame[k].by = "try_draw_player_on_hovered_cell"
    /\ running
    /\ ~aborted

C10_MenuLoop ==
    /\ [](menu.pc = "returned" <=>
            (menu.commands # <<>> /\ menu.commands[Len(menu.commands)] = "q"))
    /\ [][\A command \in Commands :
            (menu'.commands = Append(menu.commands, command) /\ command # "q") =>
                /\ menu'.pc = "get_input_from_user"
                /\ menu'.out = menu.out
                     \o <<IF command \in {"1", "2", "3", "4"}
                          THEN [op |-> "play", name |-> games[command]]
                          ELSE [op |-> "print", text |-> UnknownCommand]>>
                     \o <<show_the_list_of_commands>>]_vars

\* an unknown character, then Noughts and Crosses, then quit
C10_Witness ==
    /\ menu.pc = "returned"
    /\ menu.commands = <<"Q", "3", "q">>

\* C11: no legal move is committed on a board that already has a won line,
\* however presses and frames interleave
C11_NoMoveAfterWonLine ==
    [][PressedLegally => ~SomeLineIsWon(board)]_vars

\* the lines of WinningLines whose cells all hold the same player
WonLines(b) ==
    {line \in WinningLines :
        \E player \in Player : \A index \in line : CellOf(b, index) = player}

\* C12 as stated: in normal play at most one of the 2 * board_size + 2
\* lines is won on any board
C12_AtMostOneLineWon == Cardinality(WonLines(board)) <= 1

\* C12, amended: in normal play at most one player owns a won line on any
\* board, and that player made the last move; the lines won are one, or two
\* that cross in one cell
C12_OnePlayerOwnsTheWonLines ==
    /\ ~(HasLine(board, Noughts) /\ HasLine(board, Crosses))
    /\ \A player \in Player :
          HasLine(board, player) => current_player = OtherPlayer(player)
    /\ Cardinality(WonLines(board)) <= 2
    /\ \A one \in WonLines(board) : \A other \in WonLines(board) :
          one # other => Cardinality(one \cap other) = 1

\* the fifth move of Crosses has completed two lines at once, and the frame
\* after it has announced Crosses and stopped the loop
C12_Witness ==
    /\ Cardinality(WonLines(board)) = 2
    /\ HasLine(board, Crosses)
    /\ event.kind = "update"
    /\ ~running
    /\ stdout = <<CrossesHaveWon>>

\* the draw call that paints a player's glyph
Glyph(player) == IF player = Noughts THEN "draw_nought" ELSE "draw_cross"

IsGlyph(call) == call.op \in {"draw_nought", "draw_cross"}

\* the glyphs the last update callback drew for occupied cells
Marks ==
    SelectSeq(frame, LAMBDA call :
        IsGlyph(call) /\ call.by = "draw_noughts_and_crosses")

\* the glyphs the last update callback drew as hover preview
Previews ==
    SelectSeq(frame, LAMBDA call :
        IsGlyph(call) /\ call.by = "try_draw_player_on_hovered_cell")

\* the cells assigned by the presses handled so far
Written == {index \in AllIndices : writes[index.x + index.y * board_size] > 0}

\* the player to move after the presses handled so far, Crosses first
ToMoveAfter(moves) == IF moves % 2 = 0 THEN Crosses ELSE Noughts

\* C13: a frame observes every press handled before it, whole: it draws a
\* mark on exactly the cells those presses assigned, each with the glyph its
\* cell holds, draws the preview for the player to move after them, and
\* prints an outcome exactly when their board is terminal
C13_FrameReflectsPresses ==
    (event.kind = "update" /\ ~aborted) =>
        /\ {Marks[k].index : k \in 1 .. Len(Marks)} = Written
        /\ Len(Marks) = Moves
        /\ \A k \in 1 .. Len(Marks) :
              Marks[k].op = Glyph(CellOf(board, Marks[k].index))
        /\ \A k \in 1 .. Len(Previews) :
              Previews[k].op = Glyph(ToMoveAfter(Moves))
        /\ current_player = ToMoveAfter(Moves)
        /\ Printed # <<>> <=>
              (SomeLineIsWon(board) \/ EveryCellIsOccupied(board))

\* two presses handled with no frame between them, then the frame: it has
\* drawn both marks and the preview of Crosses
C13_Witness ==
    /\ event.kind = "update"
    /\ Moves = 2
    /\ Len(Marks) = 2
    /\ Len(Previews) = 1
    /\ Previews[1].op = "draw_cross"
    /\ running

\* the pointer is on the board: both coordinates are within [-1, +1)
OnTheBoard(position) ==
    /\ position.x >= -One /\ position.x < One
    /\ position.y >= -One /\ position.y < One

\* C14: a frame draws at most one hover preview, and only when the pointer
\* is on the board over a cell that is empty; the preview is on that cell
\* and has the glyph of the player to move
C14_PreviewOnlyOnEmptyCell ==
    (event.kind = "update" /\ ~aborted) =>
        /\ Len(Previews) <= 1
        /\ \A k \in 1 .. Len(Previews) :
              /\ OnTheBoard(event.position)
              /\ HoveredCell[event.position] = make_optional(Previews[k].index)
              /\ CellOf(board, Previews[k].index) = nullopt
              /\ Previews[k].op = Glyph(current_player)
              /\ \A j \in 1 .. Len(Marks) : Marks[j].index # Previews[k].index

\* after X on (1, 1), a frame with the pointer over (1, 1): the mark is
\* drawn and no preview
C14_Witness ==
    /\ event = [kind |-> "update", position |-> cell_center(CellIndex(1, 1), board_size)]
    /\ board = [EmptyBoard EXCEPT ![4] = Crosses]
    /\ Len(Marks) = 1
    /\ Previews = <<>>

\* the cells of the line that the index generator `index_generator` runs over
CellsOf(index_generator) ==
    {index_generator[position] : position \in 0 .. board_size - 1}

\* C15: check_for_winner_on_line returns player p if and only if all
\* board_size cells of the line hold p, and no value otherwise; a line of
\* empty cells is not won
C15_LineWonIffAllCellsOfOnePlayer ==
    detector.pc = "check_for_winner_on_line" =>
        /\ detector.winner \in Player \cup {nullopt}
        /\ \A player \in Player :
              detector.winner = player <=>
                  \A index \in CellsOf(Lines[detector.line]) :
                      CellOf(board, index) = player
        /\ (\A index \in CellsOf(Lines[detector.line]) :
               CellOf(board, index) = nullopt) => detector.winner = nullopt

\* column 0 holds no mark while column 1 is filled with Crosses: every
\* adjacent pair of column 0 is equal, and the line is not won
C15_Witness ==
    /\ detector.pc = "check_for_winner_on_line"
    /\ detector.line = 1
    /\ \A index \in CellsOf(Column(0)) : CellOf(board, index) = nullopt
    /\ detector.winner = nullopt
    /\ board[1] = Crosses /\ board[4] = Crosses /\ board[7] = Crosses

\* the k-th line of the order: the columns x = 0 .. board_size - 1, then the
\* rows y = 0 .. board_size - 1, then the main diagonal, then the
\* anti-diagonal
LineInOrder(k) ==
    IF k <= board_size
    THEN {CellIndex(k - 1, y) : y \in 0 .. board_size - 1}
    ELSE IF k <= 2 * board_size
         THEN {CellIndex(x, k - board_size - 1) : x \in 0 .. board_size - 1}
         ELSE IF k = 2 * board_size + 1
              THEN {CellIndex(j, j) : j \in 0 .. board_size - 1}
              ELSE {CellIndex(j, board_size - 1 - j) : j \in 0 .. board_size - 1}

\* the places in the order of the lines won on b
WonInOrder(b) ==
    {k \in 1 .. 2 * board_size + 2 :
        \E player \in Player : \A index \in LineInOrder(k) : CellOf(b, index) = player}

\* the owner of the first line of the order won on b
FirstWinner(b) ==
    LET first == CHOOSE k \in WonInOrder(b) : \A other \in WonInOrder(b) : k <= other
    IN  CellOf(b, CHOOSE index \in LineInOrder(first) : TRUE)

\* C16: on a board where several lines are won, check_for_winner returns the
\* owner of the first of them in the order columns, rows, main diagonal,
\* anti-diagonal (and on a board where one is won, its owner; where none, no
\* value)
C16_FirstWonLineInOrder ==
    detector.pc = "check_for_winner" =>
        detector.winner = IF WonInOrder(board) = {} THEN nullopt
                          ELSE FirstWinner(board)

\* column 0 is won by Noughts and column 2 by Crosses: Noughts are returned
C16_Witness ==
    /\ detector.pc = "check_for_winner"
    /\ WonInOrder(board) = {1, 3}
    /\ board[0] = Noughts
    /\ board[2] = Crosses
    /\ detector.winner = Noughts

\* C17: an update callback leaves the board and current_player as they
\* were; a step that changes either of them is a press
C17_UpdateLeavesBoardAndTurn ==
    [][/\ event'.kind = "update" =>
             (board' = board /\ current_player' = current_player)
       /\ (board' # board \/ current_player' # current_player) =>
             event'.kind = "mouse_pressed"]_vars

\* a frame after the first move has drawn the mark of Crosses and the
\* preview of Noughts on an empty cell; that cell is still empty and
\* Noughts are still to move
C17_Witness ==
    /\ event.kind = "update"
    /\ Moves = 1
    /\ Len(Marks) = 1
    /\ Len(Previews) = 1
    /\ CellOf(board, Previews[1].index) = nullopt
    /\ current_player = Noughts

\* the step of the update callback that made a call: the grid, the occupied
\* cells, the hover preview, then the win detector's line and the stop
Phase(call) ==
    IF call.op = "draw_cell" THEN 1
    ELSE IF IsGlyph(call)
         THEN IF call.by = "draw_noughts_and_crosses" THEN 2 ELSE 3
         ELSE IF call.op = "print" THEN 4 ELSE 5

\* C18: in every frame the calls come in the order grid, occupied cells,
\* hover preview, outcome, stop, and the whole grid is drawn; in the frame
\* that stops the loop the mark of every occupied cell is drawn before the
\* outcome line is printed
C18_DrawnBeforeOutcome ==
    (event.kind = "update" /\ ~aborted) =>
        /\ \A i \in 1 .. Len(frame) : \A j \in i .. Len(frame) :
              Phase(frame[i]) <= Phase(frame[j])
        /\ \A index \in AllIndices :
              \E i \in 1 .. Len(frame) : frame[i] = draw_cell(index)
        /\ ~running =>
              /\ \E j \in 1 .. Len(frame) : frame[j].op = "print"
              /\ \A index \in Occupied(board) :
                    \E i \in 1 .. Len(frame) :
                       /\ Phase(frame[i]) = 2
                       /\ frame[i].index = index
                       /\ frame[i].op = Glyph(CellOf(board, index))
                       /\ \A j \in 1 .. Len(frame) :
                             frame[j].op = "print" => i < j

\* the frame after the fifth move, which won column 0 for Crosses with the
\* pointer still over an empty cell: five marks, the preview, then the line
C18_Witness ==
    /\ event.kind = "update"
    /\ ~running
    /\ Moves = 5
    /\ Len(Marks) = 5
    /\ Len(Previews) = 1
    /\ Len(frame) = board_size * board_size + 8
    /\ frame[Len(frame) - 1] = [op |-> "print", text |-> CrossesHaveWon]
    /\ board[0] = Crosses /\ board[3] = Crosses /\ board[6] = Crosses

\* the number of cells of b that hold `player`
Count(b, player) == Cardinality({k \in DOMAIN b : b[k] = player})

\* C19: in every state of the session the Crosses on the board are as many
\* as the Noughts, or one more; Crosses are to move exactly when they are as
\* many, Noughts exactly when Crosses have one more
C19_CountsFollowTheTurn ==
    /\ Count(board, Crosses) - Count(board, Noughts) \in {0, 1}
    /\ current_player = Crosses <=> Count(board, Crosses) = Count(board, Noughts)
    /\ current_player = Noughts <=> Count(board, Crosses) = Count(board, Noughts) + 1

\* the full board: five Crosses, four Noughts, and Noughts to move
C19_Witness ==
    /\ Count(board, Crosses) = 5
    /\ Count(board, Noughts) = 4
    /\ current_player = Noughts
    /\ event.kind = "mouse_pressed"

\* the winner the last update callback announced, or no value
Announced ==
    IF Printed # <<>> /\ Printed[1].text = NoughtsHaveWon THEN Noughts
    ELSE IF Printed # <<>> /\ Printed[1].text = CrossesHaveWon THEN Crosses
    ELSE nullopt

\* C20: when a frame announces a winner, the player to move is the winner's
\* opponent: the winner committed the most recent legal move
C20_WinnerMovedLast ==
    (event.kind = "update" /\ Announced # nullopt) =>
        current_player = OtherPlayer(Announced)

====
